---------------------------- MODULE Spec2Model ----------------------------
(***************************************************************************)
(* A model of the axis-info dataflow analysis of lib/Analysis/AxisInfo.cpp: *)
(* the AxisInfo lattice value and AxisInfo::join, the transfer functions   *)
(* (one "visitor" per operation kind), AxisInfoAnalysis::visitOperation    *)
(* folding a transfer function's output into the lattice store, and the    *)
(* alignment queries getPtrAlignment / getPtrVectorSize.                   *)
(*                                                                         *)
(* int64_t is modelled as a two's-complement integer of IntBits bits and   *)
(* `unsigned` as an unsigned integer of UnsignedBits bits (half as wide,   *)
(* as 32 is to 64): TLC's integers are 32 bits wide, so the widths are     *)
(* scaled down together with the sentinel of highestPowOf2Divisor(0).      *)
(* Signed overflow wraps, as the multiply and add instructions of every    *)
(* target do.  An integer division by zero either traps (x86) or yields    *)
(* the non-trapping result (AArch64: x / 0 = 0, x % 0 = x).                *)
(***************************************************************************)
EXTENDS Integers, Sequences, FiniteSets, TLC

\* Width in bits of the modelled int64_t.
IntBits == 8

RECURSIVE Pow2(_)
Pow2(n) ==
    IF n <= 0 THEN 1 ELSE 2 * Pow2(n - 1)

\* Width in bits of the modelled `unsigned`.
UnsignedBits ==
    IntBits \div 2

IntMin ==
    -Pow2(IntBits - 1)

IntMax ==
    Pow2(IntBits - 1) - 1

\* Two's-complement wrap-around of an int64_t result.
Wrap(x) ==
    ((x + Pow2(IntBits - 1)) % Pow2(IntBits)) - Pow2(IntBits - 1)

\* Conversion of an int64_t to `unsigned` (truncation).
ToUnsigned(x) ==
    x % Pow2(UnsignedBits)

\* Conversion of a uint64_t to `int` (truncation to the width of int, which is
\* that of `unsigned`, read as two's complement).
ToInt(x) ==
    ((x + Pow2(UnsignedBits - 1)) % Pow2(UnsignedBits)) - Pow2(UnsignedBits - 1)

Abs(x) ==
    IF x < 0 THEN -x ELSE x

Min(a, b) ==
    IF a <= b THEN a ELSE b

Max(a, b) ==
    IF a >= b THEN a ELSE b

\* C++ `a % b` (the sign follows the dividend); b = 0 is the non-trapping result.
CRem(a, b) ==
    IF b = 0 THEN a
    ELSE LET r == Abs(a) % Abs(b) IN IF a < 0 THEN -r ELSE r

\* C++ `a / b` (truncation towards zero); b = 0 is the non-trapping result.
CDiv(a, b) ==
    IF b = 0 THEN 0
    ELSE LET q == Abs(a) \div Abs(b) IN
         Wrap(IF (a < 0) # (b < 0) THEN -q ELSE q)

\* An integer division or remainder the hardware may trap on.
DivTraps(a, b) ==
    b = 0 \/ (a = IntMin /\ b = -1)

\* gcdImpl(a, b, &x, &y): the value returned (the Bezout coefficients are unused).
\* gcdImpl cut after one step of Euclid's algorithm.
gcdImplMutOneStep(a, b) ==
    IF a = 0 THEN b ELSE IF CRem(b, a) = 0 THEN a ELSE CRem(b, a)

RECURSIVE gcdImpl(_, _)
gcdImpl(a, b) ==
    IF a = 0 THEN b ELSE gcdImpl(CRem(b, a), a)

gcd(a, b) ==
    gcdImpl(a, b)

RECURSIVE LowBit(_)
LowBit(n) ==
    IF n % 2 = 1 THEN 1 ELSE 2 * LowBit(n \div 2)

\* highestPowOf2Divisor(n): n & ~(n - 1), and a large power of two for n = 0.
highestPowOf2Divisor(n) ==
    IF n = 0 THEN Pow2(IntBits - 2) ELSE Wrap(LowBit(Abs(n)))

\* Bitwise operations of two int64_t, bit by bit on the two's-complement form.
RECURSIVE BitOp(_, _, _, _)
BitOp(op, a, b, bits) ==
    IF bits = 0 THEN 0
    ELSE LET x == a % 2
             y == b % 2
             z == CASE op = "and" -> IF x = 1 /\ y = 1 THEN 1 ELSE 0
                    [] op = "or"  -> IF x = 1 \/ y = 1 THEN 1 ELSE 0
                    [] OTHER      -> IF x # y THEN 1 ELSE 0
         IN z + 2 * BitOp(op, a \div 2, b \div 2, bits - 1)

Bitwise(op, a, b) ==
    Wrap(BitOp(op, a % Pow2(IntBits), b % Pow2(IntBits), IntBits))

-----------------------------------------------------------------------------
(***************************************************************************)
(* AxisInfo: three vectors of one entry per axis and an optional constant. *)
(* std::optional<int64_t> is a sequence of length 0 or 1.  The rank is the *)
(* length of the vectors; a default-constructed AxisInfo has rank 0.       *)
(***************************************************************************)
AxisInfo(knownContiguity, knownDivisibility, knownConstancy, knownConstantValue) ==
    [contiguity    |-> knownContiguity,
     divisibility  |-> knownDivisibility,
     constancy     |-> knownConstancy,
     constantValue |-> knownConstantValue]

UnknownInfo ==
    AxisInfo(<<>>, <<>>, <<>>, <<>>)

getRank(info) ==
    Len(info.contiguity)

known(info) ==
    getRank(info) # 0

hasValue(info) ==
    info.constantValue # <<>>

DimVectorT(rank, x) ==
    [d \in 1..rank |-> x]

\* The outcome of a call: a fatal stop of the compiler, or the value returned.
Fatal ==
    [fatal |-> TRUE, info |-> UnknownInfo]

Ok(info) ==
    [fatal |-> FALSE, info |-> info]

\* Values an indeterminate read (past the end of a vector) may yield.
Garbage ==
    {0, 1, 6}

\* A vector read up to `rank` entries, the entries past its end reading g.
ReadPast(vec, rank, g) ==
    [d \in 1..rank |-> IF d <= Len(vec) THEN vec[d] ELSE g]

\* AxisInfo::join, both sides known: the loop over lhs.getRank() axes.
joinKnownMutRhs(lhs, rhs) ==
    rhs

joinKnownMutKeepConstant(lhs, rhs) ==
    AxisInfo([d \in 1..getRank(lhs) |-> gcd(lhs.contiguity[d], rhs.contiguity[d])],
             [d \in 1..getRank(lhs) |-> gcd(lhs.divisibility[d], rhs.divisibility[d])],
             [d \in 1..getRank(lhs) |-> gcd(lhs.constancy[d], rhs.constancy[d])],
             lhs.constantValue)

\* joinKnown without the test that the two constants are equal.
joinKnownMutRhsConstant(lhs, rhs) ==
    AxisInfo([d \in 1..getRank(lhs) |-> gcd(lhs.contiguity[d], rhs.contiguity[d])],
             [d \in 1..getRank(lhs) |-> gcd(lhs.divisibility[d], rhs.divisibility[d])],
             [d \in 1..getRank(lhs) |-> gcd(lhs.constancy[d], rhs.constancy[d])],
             rhs.constantValue)

joinKnown(lhs, rhs) ==
    AxisInfo([d \in 1..getRank(lhs) |-> gcd(lhs.contiguity[d], rhs.contiguity[d])],
             [d \in 1..getRank(lhs) |-> gcd(lhs.divisibility[d], rhs.divisibility[d])],
             [d \in 1..getRank(lhs) |-> gcd(lhs.constancy[d], rhs.constancy[d])],
             IF hasValue(lhs) /\ hasValue(rhs) /\ lhs.constantValue = rhs.constantValue
             THEN lhs.constantValue ELSE <<>>)

\* AxisInfo::join: the set of outcomes.  With rhs of lower rank the loop reads
\* past the end of rhs's vectors; two unknown sides reach llvm_unreachable.
join(lhs, rhs) ==
    IF ~known(lhs) /\ known(rhs) THEN {Ok(rhs)}
    ELSE IF known(lhs) /\ ~known(rhs) THEN {Ok(lhs)}
    ELSE IF known(lhs) /\ known(rhs) THEN
        IF getRank(lhs) <= getRank(rhs) THEN {Ok(joinKnown(lhs, rhs))}
        ELSE {Fatal} \cup
             {Ok(joinKnown(lhs,
                           AxisInfo(ReadPast(rhs.contiguity, getRank(lhs), g),
                                    ReadPast(rhs.divisibility, getRank(lhs), g),
                                    ReadPast(rhs.constancy, getRank(lhs), g),
                                    rhs.constantValue))) : g \in Garbage}
    ELSE {Fatal, Ok(UnknownInfo)}

-----------------------------------------------------------------------------
(***************************************************************************)
(* The instruction graph.  A value is a block argument or the result of    *)
(* one operation; its descriptor holds the operation's kind tag, operand   *)
(* values, result shape (<<>> for a scalar) and literal attributes.        *)
(***************************************************************************)
Op(kind, args, shape) ==
    [kind |-> kind, args |-> args, shape |-> shape,
     start |-> 0, end |-> 0,          \* tt.make_range bounds
     attr |-> "none", value |-> 0,    \* arith.constant: attribute kind and value
     axis |-> 0,                      \* tt.expand_dims axis (0-based)
     pred |-> "none",                 \* arith.cmpi predicate
     opShape |-> <<>>,                \* tt.broadcast: the operand's shape
     hint |-> <<>>,                   \* function argument: tt.divisibility, if any
     entry |-> FALSE,                 \* block argument: owner is a region's entry block
     incoming |-> {}]                 \* block argument: values flowing in

CastKinds ==
    {"arith.extsi", "arith.extui", "arith.trunci", "arith.index_cast",
     "tt.ptr_to_int", "tt.int_to_ptr", "triton_gpu.convert_layout",
     "builtin.unrealized_conversion_cast", "tt.bitcast"}

AddKinds ==
    {"tt.addptr", "arith.addi"}

DivKinds ==
    {"arith.divsi", "arith.divui"}

RemKinds ==
    {"arith.remsi", "arith.remui"}

CmpKinds ==
    {"arith.cmpi", "triton_gpu.cmpi"}

SelectKinds ==
    {"select", "triton_gpu.select"}

BinaryKinds ==
    AddKinds \cup {"arith.subi", "arith.muli"} \cup DivKinds \cup RemKinds
        \cup {"arith.andi", "arith.ori", "arith.xori"}

ArgKinds ==
    {"funcarg", "regionarg", "blockarg"}

isRanked(op) ==
    op.shape # <<>>

\* AxisInfoVisitor::isContiguousDim / isConstantDim.
isContiguousDim(info, shape, d) ==
    info.contiguity[d] = shape[d]

isConstantDim(info, shape, d) ==
    info.constancy[d] = shape[d]

\* getPessimisticValueState without the early return for an entry-block
\* argument of an operation that is no function.
getPessimisticValueStateMutNoUnknown(op) ==
    LET rank == IF isRanked(op) THEN Len(op.shape) ELSE 1
        divHint == IF op.kind = "funcarg" /\ op.hint # <<>>
                   THEN ToInt(op.hint[1]) ELSE 1
    IN AxisInfo(DimVectorT(rank, 1), DimVectorT(rank, divHint),
                DimVectorT(rank, 1), <<>>)

\* AxisInfo::getPessimisticValueState(value).
getPessimisticValueState(op) ==
    LET rank == IF isRanked(op) THEN Len(op.shape) ELSE 1
        divHint == IF op.kind = "funcarg" /\ op.hint # <<>>
                   THEN ToInt(op.hint[1]) ELSE 1
    IN IF op.kind \in {"regionarg", "blockarg"} /\ op.entry
       THEN UnknownInfo
       ELSE AxisInfo(DimVectorT(rank, 1), DimVectorT(rank, divHint),
                     DimVectorT(rank, 1), <<>>)

-----------------------------------------------------------------------------
(***************************************************************************)
(* The transfer functions.                                                 *)
(***************************************************************************)
CastOp_getAxisInfo(op, operands) ==
    operands[1]

MakeRangeOp_getAxisInfo(op, operands) ==
    AxisInfo(<<op.end - op.start>>, <<highestPowOf2Divisor(op.start)>>, <<1>>, <<>>)

ConstantOp_getAxisInfo(op, operands) ==
    IF op.attr = "int"
    THEN AxisInfo(<<1>>, <<highestPowOf2Divisor(op.value)>>, <<1>>, <<op.value>>)
    ELSE IF op.attr = "splat"
    THEN AxisInfo(DimVectorT(Len(op.shape), 1),
                  DimVectorT(Len(op.shape), highestPowOf2Divisor(op.value)),
                  op.shape, <<op.value>>)
    ELSE UnknownInfo

\* AddOpAxisInfoVisitor and SubOpAxisInfoVisitor.
Add_getContiguity(lhs, rhs, dim) ==
    Max(gcd(lhs.constancy[dim], rhs.contiguity[dim]),
        gcd(lhs.contiguity[dim], rhs.constancy[dim]))

Add_getDivisibility(lhs, rhs, dim) ==
    gcd(lhs.divisibility[dim], rhs.divisibility[dim])

Add_getConstancy(lhs, rhs, dim) ==
    gcd(lhs.constancy[dim], rhs.constancy[dim])

Add_getConstantValue(lhs, rhs) ==
    IF hasValue(lhs) /\ hasValue(rhs)
    THEN <<Wrap(lhs.constantValue[1] + rhs.constantValue[1])>> ELSE <<>>

Sub_getConstantValue(lhs, rhs) ==
    IF hasValue(lhs) /\ hasValue(rhs)
    THEN <<Wrap(lhs.constantValue[1] - rhs.constantValue[1])>> ELSE <<>>

\* MulIOpAxisInfoVisitor.
MulI_getContiguity(lhs, rhs, dim) ==
    LET lhsContiguity == IF hasValue(rhs) /\ rhs.constantValue[1] = 1
                         THEN lhs.contiguity[dim] ELSE 1
        rhsContiguity == IF hasValue(lhs) /\ lhs.constantValue[1] = 1
                         THEN rhs.contiguity[dim] ELSE 1
    IN Max(lhsContiguity, rhsContiguity)

MulI_getConstancy(lhs, rhs, dim) ==
    gcd(lhs.constancy[dim], rhs.constancy[dim])

MulI_getDivisibility(lhs, rhs, dim) ==
    Wrap(lhs.divisibility[dim] * rhs.divisibility[dim])

MulI_getConstantValue(lhs, rhs) ==
    IF hasValue(lhs) /\ hasValue(rhs)
    THEN <<Wrap(lhs.constantValue[1] * rhs.constantValue[1])>> ELSE <<>>

\* DivOpAxisInfoVisitor.
Div_getContiguity(lhs, rhs, dim) ==
    IF hasValue(rhs) /\ rhs.constantValue[1] = 1 THEN lhs.contiguity[dim] ELSE 1

Div_getConstancy(op, lhs, rhs, dim) ==
    IF ~isRanked(op) THEN 1
    ELSE LET constancy == gcd(lhs.constancy[dim], rhs.constancy[dim])
         IN IF isContiguousDim(lhs, op.shape, dim) /\ isConstantDim(rhs, op.shape, dim)
            THEN Max(constancy, gcd(lhs.contiguity[dim],
                                    gcd(lhs.divisibility[dim], rhs.divisibility[dim])))
            ELSE constancy

Div_getDivisibility(lhs, rhs, dim) ==
    LET lhsDivisibility == lhs.divisibility[dim]
        rhsDivisibility == rhs.divisibility[dim]
        initGcd == gcd(lhsDivisibility, rhsDivisibility)
    IN gcd(CDiv(lhsDivisibility, initGcd), CDiv(rhsDivisibility, initGcd))

Div_getConstantValue(lhs, rhs) ==
    IF hasValue(lhs) /\ hasValue(rhs)
    THEN <<CDiv(lhs.constantValue[1], rhs.constantValue[1])>> ELSE <<>>

\* RemOpAxisInfoVisitor.
Rem_getContiguity(op, lhs, rhs, dim) ==
    IF ~isRanked(op) THEN 1
    ELSE IF isContiguousDim(lhs, op.shape, dim) /\ isConstantDim(rhs, op.shape, dim)
         THEN Max(1, gcd(lhs.contiguity[dim],
                         gcd(lhs.divisibility[dim], rhs.divisibility[dim])))
         ELSE 1

Rem_getDivisibility(lhs, rhs, dim) ==
    gcd(lhs.divisibility[dim], rhs.divisibility[dim])

Rem_getConstancy(lhs, rhs, dim) ==
    gcd(lhs.constancy[dim], rhs.constancy[dim])

Rem_getConstantValue(lhs, rhs) ==
    IF hasValue(lhs) /\ hasValue(rhs)
    THEN <<CRem(lhs.constantValue[1], rhs.constantValue[1])>> ELSE <<>>

\* AndIOpAxisInfoVisitor, OrIOpAxisInfoVisitor, XorIOpAxisInfoVisitor.
Logic_getConstancy(lhs, rhs, dim) ==
    gcd(lhs.constancy[dim], rhs.constancy[dim])

Logic_getConstantValue(op, lhs, rhs) ==
    IF hasValue(lhs) /\ hasValue(rhs)
    THEN <<Bitwise(IF op.kind = "arith.andi" THEN "and"
                   ELSE IF op.kind = "arith.ori" THEN "or" ELSE "xor",
                   lhs.constantValue[1], rhs.constantValue[1])>>
    ELSE <<>>

\* The per-kind methods a binary visitor overrides (the base class returns 1).
getContiguity(op, lhs, rhs, dim) ==
    CASE op.kind \in AddKinds \cup {"arith.subi"} -> Add_getContiguity(lhs, rhs, dim)
      [] op.kind = "arith.muli" -> MulI_getContiguity(lhs, rhs, dim)
      [] op.kind \in DivKinds -> Div_getContiguity(lhs, rhs, dim)
      [] op.kind \in RemKinds -> Rem_getContiguity(op, lhs, rhs, dim)
      [] OTHER -> 1

getDivisibility(op, lhs, rhs, dim) ==
    CASE op.kind \in AddKinds \cup {"arith.subi"} -> Add_getDivisibility(lhs, rhs, dim)
      [] op.kind = "arith.muli" -> MulI_getDivisibility(lhs, rhs, dim)
      [] op.kind \in DivKinds -> Div_getDivisibility(lhs, rhs, dim)
      [] op.kind \in RemKinds -> Rem_getDivisibility(lhs, rhs, dim)
      [] OTHER -> 1

getConstancy(op, lhs, rhs, dim) ==
    CASE op.kind \in AddKinds \cup {"arith.subi"} -> Add_getConstancy(lhs, rhs, dim)
      [] op.kind = "arith.muli" -> MulI_getConstancy(lhs, rhs, dim)
      [] op.kind \in DivKinds -> Div_getConstancy(op, lhs, rhs, dim)
      [] op.kind \in RemKinds -> Rem_getConstancy(lhs, rhs, dim)
      [] OTHER -> Logic_getConstancy(lhs, rhs, dim)

getConstantValue(op, lhs, rhs) ==
    CASE op.kind \in AddKinds -> Add_getConstantValue(lhs, rhs)
      [] op.kind = "arith.subi" -> Sub_getConstantValue(lhs, rhs)
      [] op.kind = "arith.muli" -> MulI_getConstantValue(lhs, rhs)
      [] op.kind \in DivKinds -> Div_getConstantValue(lhs, rhs)
      [] op.kind \in RemKinds -> Rem_getConstantValue(lhs, rhs)
      [] OTHER -> Logic_getConstantValue(op, lhs, rhs)

\* BinaryOpVisitorImpl::getAxisInfo: the four methods, axis by axis of lhs.
BinaryOp_getAxisInfo(op, operands) ==
    LET lhs == operands[1]
        rhs == operands[2]
        rank == getRank(lhs)
    IN AxisInfo([d \in 1..rank |-> getContiguity(op, lhs, rhs, d)],
                [d \in 1..rank |-> getDivisibility(op, lhs, rhs, d)],
                [d \in 1..rank |-> getConstancy(op, lhs, rhs, d)],
                getConstantValue(op, lhs, rhs))

\* Whether the binary visitor executes an integer division that may trap.
BinaryOpTraps(op, operands) ==
    LET lhs == operands[1]
        rhs == operands[2]
    IN \/ /\ op.kind \in DivKinds \cup RemKinds
          /\ hasValue(lhs) /\ hasValue(rhs)
          /\ DivTraps(lhs.constantValue[1], rhs.constantValue[1])
       \/ /\ op.kind \in DivKinds
          /\ \E d \in 1..getRank(lhs) :
                LET initGcd == gcd(lhs.divisibility[d], rhs.divisibility[d])
                IN DivTraps(lhs.divisibility[d], initGcd)
                   \/ DivTraps(rhs.divisibility[d], initGcd)

SplatOp_getAxisInfo(op, operands) ==
    LET opInfo == operands[1]
        rank == Len(op.shape)
    IN AxisInfo(DimVectorT(rank, 1), DimVectorT(rank, opInfo.divisibility[1]),
                op.shape, opInfo.constantValue)

\* vector.insert(begin() + axis, x)
InsertAt(vec, axis, x) ==
    SubSeq(vec, 1, axis) \o <<x>> \o SubSeq(vec, axis + 1, Len(vec))

ExpandDimsOp_getAxisInfo(op, operands) ==
    LET opInfo == operands[1]
    IN AxisInfo(InsertAt(opInfo.contiguity, op.axis, 1),
                InsertAt(opInfo.divisibility, op.axis, 1),
                InsertAt(opInfo.constancy, op.axis, 1),
                opInfo.constantValue)

BroadcastOp_getAxisInfo(op, operands) ==
    LET opInfo == operands[1]
        rank == Len(op.shape)
    IN AxisInfo([d \in 1..rank |-> IF op.opShape[d] = 1 THEN 1 ELSE opInfo.contiguity[d]],
                [d \in 1..rank |-> opInfo.divisibility[d]],
                [d \in 1..rank |-> IF op.opShape[d] = 1 THEN op.shape[d]
                                   ELSE opInfo.constancy[d]],
                opInfo.constantValue)

Predicates ==
    {"eq", "ne", "slt", "sle", "sgt", "sge", "ult", "ule", "ugt", "uge"}

notGePredicate(predicate) ==
    predicate # "sge" /\ predicate # "uge"

notSePredicate(predicate) ==
    predicate # "sle" /\ predicate # "ule"

\* (uint64_t)x
AsUnsigned64(x) ==
    x % Pow2(IntBits)

compare(predicate, lhs, rhs) ==
    CASE predicate = "eq" -> lhs = rhs
      [] predicate = "ne" -> lhs # rhs
      [] predicate = "slt" -> lhs < rhs
      [] predicate = "sle" -> lhs <= rhs
      [] predicate = "sgt" -> lhs > rhs
      [] predicate = "sge" -> lhs >= rhs
      [] predicate = "ult" -> AsUnsigned64(lhs) < AsUnsigned64(rhs)
      [] predicate = "ule" -> AsUnsigned64(lhs) <= AsUnsigned64(rhs)
      [] predicate = "ugt" -> AsUnsigned64(lhs) > AsUnsigned64(rhs)
      [] OTHER -> AsUnsigned64(lhs) >= AsUnsigned64(rhs)

CmpOp_constHint(op, lhsInfo, rhsInfo, d) ==
    IF hasValue(lhsInfo) /\ hasValue(rhsInfo) THEN lhsInfo.constancy[d]
    ELSE LET constHint == gcd(lhsInfo.constancy[d], rhsInfo.constancy[d])
         IN IF \/ /\ notGePredicate(op.pred)
                  /\ isContiguousDim(lhsInfo, op.shape, d)
                  /\ isConstantDim(rhsInfo, op.shape, d)
               \/ /\ notSePredicate(op.pred)
                  /\ isConstantDim(lhsInfo, op.shape, d)
                  /\ isContiguousDim(rhsInfo, op.shape, d)
            THEN Max(constHint, gcd(lhsInfo.contiguity[d],
                                    gcd(lhsInfo.divisibility[d], rhsInfo.divisibility[d])))
            ELSE constHint

CmpOp_getAxisInfo(op, operands) ==
    IF ~isRanked(op) THEN UnknownInfo
    ELSE LET rank == Len(op.shape)
             lhsInfo == operands[1]
             rhsInfo == operands[2]
         IN AxisInfo(DimVectorT(rank, 1), DimVectorT(rank, 1),
                     [d \in 1..rank |-> CmpOp_constHint(op, lhsInfo, rhsInfo, d)],
                     IF hasValue(lhsInfo) /\ hasValue(rhsInfo)
                     THEN <<IF compare(op.pred, lhsInfo.constantValue[1],
                                       rhsInfo.constantValue[1]) THEN 1 ELSE 0>>
                     ELSE <<>>)

SelectOp_getAxisInfo(op, operands) ==
    IF ~isRanked(op) THEN UnknownInfo
    ELSE LET rank == Len(op.shape)
             cond == operands[1]
             condConstancy == cond.constancy
             lhsInfo == operands[2]
             rhsInfo == operands[3]
         IN IF hasValue(cond)
            THEN IF cond.constantValue[1] = 0 THEN rhsInfo ELSE lhsInfo
            ELSE AxisInfo(
                   [d \in 1..rank |-> Min(gcd(lhsInfo.contiguity[d], condConstancy[d]),
                                          gcd(rhsInfo.contiguity[d], condConstancy[d]))],
                   [d \in 1..rank |-> Min(lhsInfo.divisibility[d], rhsInfo.divisibility[d])],
                   [d \in 1..rank |-> Min(gcd(lhsInfo.constancy[d], condConstancy[d]),
                                          gcd(rhsInfo.constancy[d], condConstancy[d]))],
                   IF hasValue(lhsInfo) /\ hasValue(rhsInfo)
                      /\ lhsInfo.constantValue = rhsInfo.constantValue
                   THEN lhsInfo.constantValue ELSE <<>>)

\* visitors.apply(op, operands): the visitor registered for the operation's
\* kind, and a default-constructed AxisInfo when none matches.
Dispatch(op, operands) ==
    CASE op.kind \in CastKinds -> CastOp_getAxisInfo(op, operands)
      [] op.kind = "tt.make_range" -> MakeRangeOp_getAxisInfo(op, operands)
      [] op.kind = "arith.constant" -> ConstantOp_getAxisInfo(op, operands)
      [] op.kind \in BinaryKinds -> BinaryOp_getAxisInfo(op, operands)
      [] op.kind = "tt.broadcast" -> BroadcastOp_getAxisInfo(op, operands)
      [] op.kind = "tt.splat" -> SplatOp_getAxisInfo(op, operands)
      [] op.kind = "tt.expand_dims" -> ExpandDimsOp_getAxisInfo(op, operands)
      [] op.kind \in CmpKinds -> CmpOp_getAxisInfo(op, operands)
      [] op.kind \in SelectKinds -> SelectOp_getAxisInfo(op, operands)
      [] OTHER -> UnknownInfo

\* Whether the select visitor reads condConstancy[d] past the end of the
\* condition's vector: a condition of lower rank than the result (a scalar
\* i1 selecting between tensors) that has no constantValue.
SelectReadsPast(op, operands) ==
    /\ isRanked(op)
    /\ ~hasValue(operands[1])
    /\ getRank(operands[1]) < Len(op.shape)

\* The outcomes of visitors.apply: the visitor's value, or a trap inside it.
Apply(op, operands) ==
    IF op.kind \in BinaryKinds /\ BinaryOpTraps(op, operands)
    THEN {Fatal, Ok(Dispatch(op, operands))}
    ELSE IF op.kind \in SelectKinds /\ SelectReadsPast(op, operands)
    THEN {Fatal} \cup
         {Ok(Dispatch(op,
                      <<[operands[1] EXCEPT
                           !.constancy = ReadPast(@, Len(op.shape), g)],
                        operands[2], operands[3]>>)) : g \in Garbage}
    ELSE {Ok(Dispatch(op, operands))}

-----------------------------------------------------------------------------
(***************************************************************************)
(* The instruction graphs explored.  A graph is a sequence of descriptors; *)
(* value i is the argument or the operation result described by entry i.   *)
(***************************************************************************)
\* Largest literal of an arith.constant.
MaxConst == 3

ConstValues ==
    0..MaxConst

\* tt.divisibility attributes of function arguments (<<>>: none declared).
HintAttrs ==
    {<<>>, <<2>>, <<4>>}

\* getSizePerThread(layout)[order[0]] of the layouts queried.
SizesPerThread ==
    {1, 2, 4}

FuncArg(shape, hint) ==
    [Op("funcarg", <<>>, shape) EXCEPT !.hint = hint]

RegionArg(shape) ==
    [Op("regionarg", <<>>, shape) EXCEPT !.entry = TRUE]

BlockArg(shape, entry, incoming) ==
    [Op("blockarg", <<>>, shape) EXCEPT !.entry = entry, !.incoming = incoming]

MakeRange(start, end) ==
    [Op("tt.make_range", <<>>, <<end - start>>) EXCEPT !.start = start, !.end = end]

Constant(value) ==
    [Op("arith.constant", <<>>, <<>>) EXCEPT !.attr = "int", !.value = value]

ConstantSplat(value, shape) ==
    [Op("arith.constant", <<>>, shape) EXCEPT !.attr = "splat", !.value = value]

ConstantFloat(shape) ==
    [Op("arith.constant", <<>>, shape) EXCEPT !.attr = "float"]

Splat(x, shape) ==
    Op("tt.splat", <<x>>, shape)

ExpandDims(x, axis, shape) ==
    [Op("tt.expand_dims", <<x>>, shape) EXCEPT !.axis = axis]

Broadcast(x, opShape, shape) ==
    [Op("tt.broadcast", <<x>>, shape) EXCEPT !.opShape = opShape]

Cmp(pred, l, r, shape) ==
    [Op("arith.cmpi", <<l, r>>, shape) EXCEPT !.pred = pred]

Select(c, t, f, shape) ==
    Op("select", <<c, t, f>>, shape)

ScalarSources ==
    {Constant(c) : c \in ConstValues} \cup {FuncArg(<<>>, h) : h \in HintAttrs}

\* Two scalars and one binary operation on them.
ScalarBinaryPrograms ==
    {<<a, b, Op(k, <<1, 2>>, <<>>)>> :
        a \in ScalarSources, b \in ScalarSources, k \in BinaryKinds}

\* A loop: value 3 is the loop-carried argument, fed by values 1 and 2 and by
\* the operation on it, value 4.
LoopKinds ==
    {"arith.addi", "arith.subi", "arith.muli", "arith.remsi"}

LoopPrograms ==
    {<<a, b, BlockArg(<<>>, e, {1, 2, 4}), Op(k, <<3, 1>>, <<>>)>> :
        a \in ScalarSources, b \in ScalarSources, k \in LoopKinds, e \in BOOLEAN}

\* An argument nothing is known of and a scalar meet in a block argument that
\* a cast and an operation without transfer function read.
OpaquePrograms ==
    {<<RegionArg(<<>>), s, BlockArg(<<>>, FALSE, {1, 2}),
       Op(k, <<3>>, <<>>), Op("tt.load", <<3>>, <<>>)>> :
        s \in ScalarSources, k \in {"arith.extsi", "tt.int_to_ptr"}}

\* ptr + range: the usual address computation.
PointerPrograms ==
    {<<FuncArg(<<>>, h), Splat(1, <<4>>), MakeRange(s, s + 4),
       Op("tt.addptr", <<2, 3>>, <<4>>)>> :
        h \in HintAttrs, s \in {0, 2, 4}}

\* A product of two scalars, splatted and cast to a pointer tensor.
ProductPrograms ==
    {<<a, b, Op("arith.muli", <<1, 2>>, <<>>), Splat(3, <<4>>),
       Op("tt.int_to_ptr", <<4>>, <<4>>)>> :
        a \in ScalarSources, b \in ScalarSources}

\* range (op) splat(scalar), in both operand orders.
TensorBinaryPrograms ==
    {<<MakeRange(s, s + 4), c, Splat(2, <<4>>), Op(k, args, <<4>>)>> :
        s \in {0, 2}, c \in ScalarSources, k \in BinaryKinds,
        args \in {<<1, 3>>, <<3, 1>>}}

\* select(cmp(x, y), t, f) over a range and two splatted constants.
CmpSelectPrograms ==
    {<<MakeRange(0, 4), Constant(c), Splat(2, <<4>>), Cmp(p, lr[1], lr[2], <<4>>),
       Constant(2), Splat(5, <<4>>), Select(4, tf[1], tf[2], <<4>>)>> :
        c \in {0, 3}, p \in Predicates,
        lr \in {<<1, 3>>, <<3, 1>>, <<3, 6>>},
        tf \in {<<6, 6>>, <<6, 1>>, <<1, 3>>}}

\* expand_dims and broadcast to two axes, then an operation with a splat.
TwoAxisPrograms ==
    {<<MakeRange(0, 4), ExpandDims(1, 1, <<4, 1>>), Broadcast(2, <<4, 1>>, <<4, 2>>),
       c, Splat(4, <<4, 2>>), Op(k, <<3, 5>>, <<4, 2>>)>> :
        c \in ScalarSources, k \in {"arith.addi", "arith.muli", "arith.divsi"}}
    \cup
    {<<MakeRange(0, 4), ExpandDims(1, 0, <<1, 4>>), Broadcast(2, <<1, 4>>, <<2, 4>>),
       ConstantSplat(c, <<2, 4>>), Op(k, <<3, 4>>, <<2, 4>>), ConstantFloat(<<2, 4>>)>> :
        c \in ConstValues, k \in {"arith.addi", "arith.remsi", "arith.andi"}}

\* A tensor argument of the function, read by a cast, and the argument of a
\* region, read by an operation without transfer function.
ArgumentPrograms ==
    {<<FuncArg(sh, h), RegionArg(sh), Op("arith.extsi", <<1>>, sh),
       Op("tt.load", <<2>>, sh)>> :
        sh \in {<<4>>, <<4, 2>>}, h \in HintAttrs}

\* A select between a tensor merged from two function arguments, of declared
\* divisibility 6 and 3, and a function argument of declared divisibility 4.
MergedSelectPrograms ==
    {<<FuncArg(<<4>>, <<6>>), FuncArg(<<4>>, <<3>>), FuncArg(<<4>>, <<4>>),
       FuncArg(<<4>>, <<>>), BlockArg(<<4>>, FALSE, {1, 2}),
       Select(4, 5, 3, <<4>>)>>}

Programs ==
    ScalarBinaryPrograms \cup LoopPrograms \cup OpaquePrograms \cup PointerPrograms
        \cup ProductPrograms \cup TensorBinaryPrograms \cup CmpSelectPrograms
        \cup TwoAxisPrograms \cup ArgumentPrograms \cup MergedSelectPrograms

-----------------------------------------------------------------------------
(***************************************************************************)
(* The state: the lattice store of the analysis and what a run has done.   *)
(***************************************************************************)
VARIABLES
    prog,       \* the instruction graph analysed
    lattice,    \* value -> lattice element: initialised or not, and its AxisInfo
    status,     \* "running", or "fatal" once the compiler has stopped
    visited,    \* the operations visitOperation has been called on
    fixedBy,    \* the results visitOperation marked as pessimistic fixpoint
    rejoined,   \* those of fixedBy a later visit joined a known AxisInfo into
    query,      \* the last alignment query and what it returned
    joinLhs,    \* AxisInfo::join taken alone: its arguments ...
    joinRhs,
    joinOut,    \* ... and its outcome
    tf          \* a transfer function taken alone: operation, operands, result

vars ==
    <<prog, lattice, status, visited, fixedBy, rejoined, query,
      joinLhs, joinRhs, joinOut, tf>>

Values ==
    DOMAIN prog

Uninitialized ==
    [init |-> FALSE, val |-> UnknownInfo]

Initialized(info) ==
    [init |-> TRUE, val |-> info]

NoQuery ==
    [value |-> 0, order0 |-> 0, sizePerThread |-> 0, info |-> UnknownInfo,
     alignment |-> 0, vec |-> 0]

NotJoined ==
    [applied |-> FALSE, fatal |-> FALSE, info |-> UnknownInfo]

NoTransfer ==
    [op |-> Op("none", <<>>, <<>>), operands |-> <<>>, concrete |-> <<>>,
     applied |-> FALSE, fatal |-> FALSE, out |-> UnknownInfo, result |-> <<>>]

\* LatticeElement::isAtFixpoint: the value held is the pessimistic one.
isAtFixpoint(v) ==
    lattice[v].init /\ lattice[v].val = getPessimisticValueState(prog[v])

\* LatticeElement::join(rhs): an uninitialised element takes rhs, any other
\* one AxisInfo::join of what it holds with rhs.
LatticeElement_join(elem, rhs) ==
    IF ~elem.init THEN {Ok(rhs)} ELSE join(elem.val, rhs)

\* The operands' AxisInfo, in operand order.
OperandInfos(v) ==
    [i \in 1..Len(prog[v].args) |-> lattice[prog[v].args[i]].val]

\* The driver visits an operation once all its operands are initialised; the
\* visitors that index their operands' vectors are given operands that have them.
OperandsReady(v) ==
    /\ \A i \in 1..Len(prog[v].args) : lattice[prog[v].args[i]].init
    /\ prog[v].kind \in BinaryKinds \cup CmpKinds \cup SelectKinds
                        \cup {"tt.splat", "tt.broadcast", "tt.expand_dims"}
         => \A i \in 1..Len(prog[v].args) : known(lattice[prog[v].args[i]].val)

\* The store after visitOperation(v) took curr from the visitors, or "fatal".
VisitOutcomes(v) ==
    UNION {IF curr.fatal THEN {Fatal}
           ELSE IF getRank(curr.info) = 0
                THEN {Ok(getPessimisticValueState(prog[v]))}
                ELSE LatticeElement_join(lattice[v], curr.info) :
           curr \in Apply(prog[v], OperandInfos(v))}

Init ==
    /\ prog \in Programs
    /\ lattice = [v \in DOMAIN prog |->
                    IF prog[v].kind \in {"funcarg", "regionarg"}
                    THEN Initialized(getPessimisticValueState(prog[v]))
                    ELSE Uninitialized]
    /\ status = "running"
    /\ visited = {}
    /\ fixedBy = {}
    /\ rejoined = {}
    /\ query = NoQuery
    /\ joinLhs = UnknownInfo
    /\ joinRhs = UnknownInfo
    /\ joinOut = NotJoined
    /\ tf = NoTransfer

\* visitOperation joining curr into the first operand of the operation too.
visitOperationMutWritesOperand(v) ==
    /\ status = "running"
    /\ prog[v].kind \notin ArgKinds
    /\ OperandsReady(v)
    /\ visited' = visited \cup {v}
    /\ \E curr \in Apply(prog[v], OperandInfos(v)) :
          IF curr.fatal
          THEN /\ status' = "fatal"
               /\ UNCHANGED <<lattice, fixedBy, rejoined>>
          ELSE IF getRank(curr.info) = 0
          THEN \* markAllPessimisticFixpoint(op->getResults())
               /\ lattice' = [lattice EXCEPT
                                ![v] = Initialized(getPessimisticValueState(prog[v]))]
               /\ fixedBy' = fixedBy \cup {v}
               /\ UNCHANGED <<status, rejoined>>
          ELSE \* getLatticeElement(value).join(curr)
               \E out \in LatticeElement_join(lattice[v], curr.info) :
                  IF out.fatal
                  THEN /\ status' = "fatal"
                       /\ UNCHANGED <<lattice, fixedBy, rejoined>>
                  ELSE /\ lattice' = [w \in DOMAIN lattice |->
                                     IF w = v \/ (Len(prog[v].args) > 0
                                                  /\ w = prog[v].args[1])
                                     THEN Initialized(out.info)
                                     ELSE lattice[w]]
                       /\ rejoined' = IF v \in fixedBy THEN rejoined \cup {v}
                                      ELSE rejoined
                       /\ UNCHANGED <<status, fixedBy>>
    /\ UNCHANGED <<prog, query, joinLhs, joinRhs, joinOut, tf>>

\* AxisInfoAnalysis::visitOperation(op, operands), op being the one defining v.
visitOperation(v) ==
    /\ status = "running"
    /\ prog[v].kind \notin ArgKinds
    /\ OperandsReady(v)
    /\ visited' = visited \cup {v}
    /\ \E curr \in Apply(prog[v], OperandInfos(v)) :
          IF curr.fatal
          THEN /\ status' = "fatal"
               /\ UNCHANGED <<lattice, fixedBy, rejoined>>
          ELSE IF getRank(curr.info) = 0
          THEN \* markAllPessimisticFixpoint(op->getResults())
               /\ lattice' = [lattice EXCEPT
                                ![v] = Initialized(getPessimisticValueState(prog[v]))]
               /\ fixedBy' = fixedBy \cup {v}
               /\ UNCHANGED <<status, rejoined>>
          ELSE \* getLatticeElement(value).join(curr)
               \E out \in LatticeElement_join(lattice[v], curr.info) :
                  IF out.fatal
                  THEN /\ status' = "fatal"
                       /\ UNCHANGED <<lattice, fixedBy, rejoined>>
                  ELSE /\ lattice' = [lattice EXCEPT ![v] = Initialized(out.info)]
                       /\ rejoined' = IF v \in fixedBy THEN rejoined \cup {v}
                                      ELSE rejoined
                       /\ UNCHANGED <<status, fixedBy>>
    /\ UNCHANGED <<prog, query, joinLhs, joinRhs, joinOut, tf>>

\* The driver joins the AxisInfo of a value flowing into a block argument:
\* nothing happens at a fixpoint or for a source not yet initialised.
JoinIncoming(b, p) ==
    /\ status = "running"
    /\ prog[b].kind = "blockarg"
    /\ p \in prog[b].incoming
    /\ lattice[p].init
    /\ ~isAtFixpoint(b)
    /\ \E out \in LatticeElement_join(lattice[b], lattice[p].val) :
          IF out.fatal
          THEN /\ status' = "fatal"
               /\ UNCHANGED lattice
          ELSE /\ lattice' = [lattice EXCEPT ![b] = Initialized(out.info)]
               /\ UNCHANGED status
    /\ UNCHANGED <<prog, visited, fixedBy, rejoined, query, joinLhs, joinRhs, joinOut,
                   tf>>

\* No step of the analysis changes a record any more.
Quiescent ==
    \/ status = "fatal"
    \/ /\ \A v \in Values :
             prog[v].kind \notin ArgKinds /\ OperandsReady(v)
               => VisitOutcomes(v) = {Ok(lattice[v].val)} /\ lattice[v].init
       /\ \A b \in Values :
             prog[b].kind = "blockarg" /\ ~isAtFixpoint(b)
               => \A p \in prog[b].incoming :
                     lattice[p].init
                       => /\ lattice[b].init
                          /\ LatticeElement_join(lattice[b], lattice[p].val)
                               = {Ok(lattice[b].val)}

\* AxisInfoAnalysis::getPtrAlignment(ptr), order0 being getOrder(layout)[0] (1-based).
getPtrAlignment(op, axisInfo, order0) ==
    IF ~isRanked(op) THEN 1
    ELSE LET maxMultiple == axisInfo.divisibility[order0]
             maxContig == axisInfo.contiguity[order0]
         IN ToUnsigned(Min(maxMultiple, maxContig))

\* AxisInfoAnalysis::getPtrVectorSize(ptr).
getPtrVectorSize(op, axisInfo, order0, contigPerThread) ==
    IF ~isRanked(op) THEN 1
    ELSE LET align == getPtrAlignment(op, axisInfo, order0)
             vec == Min(align, contigPerThread)
         IN Min(ToUnsigned(op.shape[order0]), vec)

\* The code generator queries a value of the converged store.
QueryPtr(v, order0, contigPerThread) ==
    /\ lattice[v].init
    /\ isRanked(prog[v]) => getRank(lattice[v].val) = Len(prog[v].shape)
    /\ order0 \in 1..Max(1, Len(prog[v].shape))
    /\ query' = [value |-> v, order0 |-> order0, sizePerThread |-> contigPerThread,
                 info |-> lattice[v].val,
                 alignment |-> getPtrAlignment(prog[v], lattice[v].val, order0),
                 vec |-> getPtrVectorSize(prog[v], lattice[v].val, order0,
                                          contigPerThread)]
    /\ UNCHANGED <<prog, lattice, status, visited, fixedBy, rejoined,
                   joinLhs, joinRhs, joinOut, tf>>

Analyse ==
    \/ \E v \in Values : visitOperation(v)
    \/ \E b \in Values : \E p \in Values : JoinIncoming(b, p)

Query ==
    /\ status = "running"
    /\ Quiescent
    /\ \E v \in Values : \E order0 \in 1..2 : \E spt \in SizesPerThread :
          QueryPtr(v, order0, spt)

Next ==
    \/ Analyse
    \/ Query

Spec ==
    Init /\ [][Next]_vars

\* The analysis alone, run by a driver that goes on while a step changes a record.
LiveSpec ==
    Init /\ [][Analyse]_vars /\ WF_vars(Analyse)

-----------------------------------------------------------------------------
(***************************************************************************)
(* AxisInfo::join taken alone, on two records drawn from the well-formed   *)
(* ones (every entry at least 1) of rank 0, 1 and 2.                       *)
(***************************************************************************)
JoinEntries ==
    {1, 2, 3, 4, 6}

JoinConstants ==
    {<<>>, <<0>>, <<5>>}

JoinInputs ==
    {UnknownInfo}
    \cup {AxisInfo(<<c>>, <<d>>, <<k>>, cv) :
            c \in JoinEntries, d \in JoinEntries, k \in {1, 4}, cv \in JoinConstants}
    \cup {AxisInfo(c, d, k, cv) :
            c \in {<<1, 1>>, <<4, 2>>, <<6, 4>>}, d \in {<<1, 1>>, <<4, 2>>, <<6, 4>>},
            k \in {<<1, 1>>, <<4, 2>>}, cv \in {<<>>, <<5>>}}

InitJoin ==
    /\ prog = <<Constant(0)>>
    /\ lattice = [v \in {1} |-> Uninitialized]
    /\ status = "running"
    /\ visited = {}
    /\ fixedBy = {}
    /\ rejoined = {}
    /\ query = NoQuery
    /\ joinLhs \in JoinInputs
    /\ joinRhs \in JoinInputs
    /\ joinOut = NotJoined
    /\ tf = NoTransfer

CallJoin ==
    /\ ~joinOut.applied
    /\ \E out \in join(joinLhs, joinRhs) :
          joinOut' = [applied |-> TRUE, fatal |-> out.fatal, info |-> out.info]
    /\ UNCHANGED <<prog, lattice, status, visited, fixedBy, rejoined, query,
                   joinLhs, joinRhs, tf>>

SpecJoin ==
    InitJoin /\ [][CallJoin]_vars

-----------------------------------------------------------------------------
(***************************************************************************)
(* A transfer function taken alone, on operands given by their AxisInfo    *)
(* and, for the operations on integers, by the contents of the tensors.    *)
(* The tensors have one axis of extent 4.                                  *)
(***************************************************************************)
TensorShape ==
    <<4>>

\* Contents of operand tensors: runs of consecutive integers, splats, and
\* tensors made of two halves.
Runs ==
    {[i \in 1..TensorShape[1] |-> s + i - 1] : s \in {-4, 0, 1, 4}}

Splats ==
    {[i \in 1..TensorShape[1] |-> c] : c \in {0, 2, 4, 5}}

Halves ==
    {<<0, 0, 4, 4>>, <<2, 3, 0, 1>>, <<3, 0, 5, 2>>}

Tensors ==
    Runs \cup Splats \cup Halves

\* The elements i and j of an axis lie in the same aligned block of n elements.
SameBlock(i, j, n) ==
    (i - 1) \div n = (j - 1) \div n

\* The contents t satisfy the record info: every aligned block of contiguity
\* elements is a run of consecutive integers starting at a multiple of the
\* divisibility, every aligned block of constancy elements holds one value, and
\* every element is the constant, if the record has one.
Satisfies(t, info) ==
    /\ getRank(info) = 1
    /\ \A i \in DOMAIN t :
          /\ (i - 1) % info.contiguity[1] = 0 => t[i] % info.divisibility[1] = 0
          /\ \A j \in DOMAIN t :
                /\ SameBlock(i, j, info.contiguity[1]) => t[j] - t[i] = j - i
                /\ SameBlock(i, j, info.constancy[1]) => t[j] = t[i]
          /\ hasValue(info) => t[i] = info.constantValue[1]

\* The records explored for the contents t.
RecordsOf(t) ==
    {r \in {AxisInfo(<<c>>, <<d>>, <<k>>, cv) :
              c \in {1, 2, 4}, d \in {1, 2, 4}, k \in {1, 2, 4},
              cv \in {<<>>, <<t[1]>>}} : Satisfies(t, r)}

SatisfiedOperands ==
    UNION {{[contents |-> t, info |-> r] : r \in RecordsOf(t)} : t \in Tensors}

\* arith.cmpi on two integers of the modelled width.
CmpiSemantics(predicate, a, b) ==
    LET ua == IF a < 0 THEN a + Pow2(IntBits) ELSE a
        ub == IF b < 0 THEN b + Pow2(IntBits) ELSE b
    IN CASE predicate = "eq" -> a = b
         [] predicate = "ne" -> a # b
         [] predicate = "slt" -> a < b
         [] predicate = "sle" -> a <= b
         [] predicate = "sgt" -> a > b
         [] predicate = "sge" -> a >= b
         [] predicate = "ult" -> ua < ub
         [] predicate = "ule" -> ua <= ub
         [] predicate = "ugt" -> ua > ub
         [] predicate = "uge" -> ua >= ub

\* arith.divsi, arith.divui, arith.remsi and arith.remui on two integers of
\* the modelled width, the divisor not 0: the signed ones round the quotient
\* towards zero, the unsigned ones read both operands as unsigned.
DivRemSemantics(kind, a, b) ==
    LET ua == IF a < 0 THEN a + Pow2(IntBits) ELSE a
        ub == IF b < 0 THEN b + Pow2(IntBits) ELSE b
        sign == IF (a < 0) = (b < 0) THEN 1 ELSE -1
        quotient == sign * (Abs(a) \div Abs(b))
    IN CASE kind = "arith.divsi" -> Wrap(quotient)
         [] kind = "arith.remsi" -> a - b * quotient
         [] kind = "arith.divui" -> Wrap(ua \div ub)
         [] kind = "arith.remui" -> Wrap(ua % ub)

\* The contents of the result of an operation on tensors of these contents.
Semantics(op, concrete) ==
    CASE op.kind \in CmpKinds ->
           [i \in 1..TensorShape[1] |->
              IF CmpiSemantics(op.pred, concrete[1][i], concrete[2][i]) THEN 1 ELSE 0]
      [] op.kind \in DivKinds \cup RemKinds ->
           [i \in 1..TensorShape[1] |->
              DivRemSemantics(op.kind, concrete[1][i], concrete[2][i])]
      [] OTHER -> <<>>

CmpInputs ==
    {[op |-> Cmp(p, 1, 2, TensorShape), operands |-> <<l.info, r.info>>,
      concrete |-> <<l.contents, r.contents>>] :
        p \in Predicates, l \in SatisfiedOperands, r \in SatisfiedOperands}

\* Divisions and remainders, the divisor nowhere 0.
DivRemInputs ==
    {[op |-> Op(k, <<1, 2>>, TensorShape), operands |-> <<l.info, r.info>>,
      concrete |-> <<l.contents, r.contents>>] :
        k \in DivKinds \cup RemKinds, l \in SatisfiedOperands,
        r \in {x \in SatisfiedOperands : \A i \in DOMAIN x.contents : x.contents[i] # 0}}

\* The records of a tensor of shape sh, its contents left open.
SelectShapes ==
    {<<4>>, <<4, 2>>}

SelectEntries(sh) ==
    IF Len(sh) = 1 THEN {<<1>>, <<2>>, <<4>>} ELSE {<<1, 1>>, <<2, 1>>, <<4, 2>>}

BranchRecords(sh) ==
    {AxisInfo(c, d, k, cv) :
        c \in SelectEntries(sh), d \in SelectEntries(sh), k \in SelectEntries(sh),
        cv \in {<<>>, <<2>>}}

\* The records of a condition: a tensor of the result's shape, or a scalar i1,
\* whose record has rank 1.
ConditionRecords(sh) ==
    {AxisInfo(DimVectorT(Len(k), 1), DimVectorT(Len(k), 1), k, cv) :
        k \in SelectEntries(sh) \cup {<<1>>}, cv \in {<<>>, <<0>>, <<1>>}}

\* A select on records alone.
SelectInput(sh, c, t, f) ==
    [op |-> Select(1, 2, 3, sh), operands |-> <<c, t, f>>, concrete |-> <<>>]

TransferInputs ==
    CmpInputs \cup DivRemInputs

\* The transfer function of an input, not applied yet.
NotApplied(in) ==
    [op |-> in.op, operands |-> in.operands, concrete |-> in.concrete,
     applied |-> FALSE, fatal |-> FALSE, out |-> UnknownInfo, result |-> <<>>]

InitTransfer ==
    /\ prog = <<Constant(0)>>
    /\ lattice = [v \in {1} |-> Uninitialized]
    /\ status = "running"
    /\ visited = {}
    /\ fixedBy = {}
    /\ rejoined = {}
    /\ query = NoQuery
    /\ joinLhs = UnknownInfo
    /\ joinRhs = UnknownInfo
    /\ joinOut = NotJoined
    /\ \/ \E in \in TransferInputs : tf = NotApplied(in)
       \/ \E sh \in SelectShapes :
             \E c \in ConditionRecords(sh), t \in BranchRecords(sh),
                f \in BranchRecords(sh) : tf = NotApplied(SelectInput(sh, c, t, f))

\* visitors.apply(op, operands) on the operation, and the operation itself on
\* the contents.
ApplyTransfer ==
    /\ ~tf.applied
    /\ \E out \in Apply(tf.op, tf.operands) :
          tf' = [tf EXCEPT !.applied = TRUE, !.fatal = out.fatal, !.out = out.info,
                           !.result = Semantics(tf.op, tf.concrete)]
    /\ UNCHANGED <<prog, lattice, status, visited, fixedBy, rejoined, query,
                   joinLhs, joinRhs, joinOut>>

SpecTransfer ==
    InitTransfer /\ [][ApplyTransfer]_vars

-----------------------------------------------------------------------------
(***************************************************************************)
(* Properties.                                                             *)
(***************************************************************************)
Extent(op, d) ==
    IF isRanked(op) THEN op.shape[d] ELSE 1

Divides(n, m) ==
    IF n = 0 THEN m = 0 ELSE m % Abs(n) = 0

\* The greatest common divisor of two positive integers, by its definition.
CommonDivisors(a, b) ==
    {g \in 1..Max(a, b) : a % g = 0 /\ b % g = 0}

GreatestCommonDivisor(a, b) ==
    CHOOSE g \in CommonDivisors(a, b) : \A h \in CommonDivisors(a, b) : h <= g

\* C1: a result that visitOperation marked as pessimistic fixpoint, no transfer
\* function having produced a record for it, holds exactly the pessimistic
\* default in every later state, whatever was visited or joined since.
C1_PermanentlyFixed ==
    \A v \in fixedBy :
        lattice[v] = Initialized(getPessimisticValueState(prog[v]))

\* A result marked pessimistic was visited again once its operand had become
\* known, the cast's transfer function then yielding another record than the
\* default, which visitOperation joined into it.
C1_Witness ==
    \E v \in rejoined :
        /\ prog[v].kind \in CastKinds
        /\ known(lattice[prog[v].args[1]].val)
        /\ lattice[prog[v].args[1]].val # getPessimisticValueState(prog[v])

\* C2: the analysis run by its driver ends: from some state on no visit and
\* no join into a block argument changes any record.
C2_Terminates ==
    <>[]Quiescent

\* A loop has converged: its loop-carried argument was refined below both
\* constants flowing into it, and the operation in the loop has been visited.
C2_Witness ==
    /\ Quiescent
    /\ status = "running"
    /\ \E b \in Values :
          /\ prog[b].kind = "blockarg"
          /\ known(lattice[b].val)
          /\ \E p \in prog[b].incoming :
                /\ prog[p].kind \notin ArgKinds
                /\ p \in visited
                /\ b \in {prog[p].args[i] : i \in 1..Len(prog[p].args)}
          /\ lattice[b].val.divisibility[1] > 1
          /\ \A p \in prog[b].incoming :
                prog[p].kind \in {"funcarg", "arith.constant"}
                  => hasValue(lattice[p].val) /\ lattice[p].val # lattice[b].val

\* C3: a known record only moves down: every new entry divides and is at most
\* the entry it replaces, the rank stays, an absent constant stays absent.
C3_StepDown(v) ==
    LET old == lattice[v].val
        new == lattice'[v].val
    IN lattice[v].init /\ known(old) =>
          /\ getRank(new) = getRank(old)
          /\ \A d \in 1..getRank(old) :
                /\ Divides(new.contiguity[d], old.contiguity[d])
                /\ new.contiguity[d] <= old.contiguity[d]
                /\ Divides(new.divisibility[d], old.divisibility[d])
                /\ new.divisibility[d] <= old.divisibility[d]
                /\ Divides(new.constancy[d], old.constancy[d])
                /\ new.constancy[d] <= old.constancy[d]
          /\ ~hasValue(old) => ~hasValue(new)

C3_GcdChain ==
    [][\A v \in Values : C3_StepDown(v)]_vars

\* C4: join is commutative and idempotent on known records of equal rank, and
\* the unknown record is its identity.
C4_JoinAlgebra ==
    joinOut.applied =>
        /\ known(joinLhs) /\ known(joinRhs) /\ getRank(joinLhs) = getRank(joinRhs)
             => /\ ~joinOut.fatal
                /\ join(joinRhs, joinLhs) = {Ok(joinOut.info)}
        /\ known(joinLhs) /\ joinLhs = joinRhs
             => ~joinOut.fatal /\ joinOut.info = joinLhs
        /\ ~known(joinLhs) /\ known(joinRhs)
             => ~joinOut.fatal /\ joinOut.info = joinRhs
        /\ known(joinLhs) /\ ~known(joinRhs)
             => ~joinOut.fatal /\ joinOut.info = joinLhs

\* join was applied to two different known records of equal rank, one with a
\* constant and one without, and returned a third.
C4_Witness ==
    /\ joinOut.applied
    /\ known(joinLhs) /\ known(joinRhs) /\ getRank(joinLhs) = getRank(joinRhs)
    /\ hasValue(joinLhs) /\ ~hasValue(joinRhs)
    /\ joinOut.info # joinLhs /\ joinOut.info # joinRhs

\* C5: for known records of one rank, every entry of the joined record is the
\* greatest common divisor of the two entries, and the constant is lhs's if
\* both have one and they are equal, and absent otherwise.
C5_JoinIsGcd ==
    joinOut.applied /\ known(joinLhs) /\ known(joinRhs)
                    /\ getRank(joinLhs) = getRank(joinRhs)
      => /\ ~joinOut.fatal
         /\ getRank(joinOut.info) = getRank(joinLhs)
         /\ Len(joinOut.info.divisibility) = getRank(joinLhs)
         /\ Len(joinOut.info.constancy) = getRank(joinLhs)
         /\ \A d \in 1..getRank(joinLhs) :
               /\ joinOut.info.contiguity[d]
                    = GreatestCommonDivisor(joinLhs.contiguity[d], joinRhs.contiguity[d])
               /\ joinOut.info.divisibility[d]
                    = GreatestCommonDivisor(joinLhs.divisibility[d],
                                            joinRhs.divisibility[d])
               /\ joinOut.info.constancy[d]
                    = GreatestCommonDivisor(joinLhs.constancy[d], joinRhs.constancy[d])
         /\ IF hasValue(joinLhs) /\ hasValue(joinRhs)
               /\ joinLhs.constantValue = joinRhs.constantValue
            THEN joinOut.info.constantValue = joinLhs.constantValue
            ELSE joinOut.info.constantValue = <<>>

\* join was applied to two records of rank 2 with entries 4 and 6 on an axis,
\* whose greatest common divisor is neither, and with different constants.
C5_Witness ==
    /\ joinOut.applied
    /\ getRank(joinLhs) = 2 /\ getRank(joinRhs) = 2
    /\ joinLhs.contiguity[1] = 4 /\ joinRhs.contiguity[1] = 6
    /\ joinOut.info.contiguity[1] = 2
    /\ hasValue(joinLhs) /\ ~hasValue(joinRhs)

\* C6: joining two unknown records, or two known records of different rank,
\* is a fatal error: join returns no record.
C6_IllFormedJoinIsFatal ==
    joinOut.applied
      /\ \/ ~known(joinLhs) /\ ~known(joinRhs)
         \/ known(joinLhs) /\ known(joinRhs) /\ getRank(joinLhs) # getRank(joinRhs)
      => joinOut.fatal

\* C6, the case of two known records of different rank: join is a fatal
\* error and returns no record.
C6_RankMismatchIsFatal ==
    joinOut.applied /\ known(joinLhs) /\ known(joinRhs)
                    /\ getRank(joinLhs) # getRank(joinRhs)
      => joinOut.fatal

\* C7: a divide or remainder whose operands are both constant, the right one
\* 0, does not stop the compiler and yields a record without constant whose
\* vectors are those of the transfer function.
C7_DivideByZeroSkipped ==
    \A v \in visited :
        (/\ prog[v].kind \in DivKinds \cup RemKinds
         /\ OperandsReady(v)
         /\ hasValue(OperandInfos(v)[1]) /\ hasValue(OperandInfos(v)[2])
         /\ OperandInfos(v)[2].constantValue[1] = 0)
          => /\ status = "running"
             /\ lattice[v].init
             /\ ~hasValue(lattice[v].val)
             /\ \A d \in 1..getRank(lattice[v].val) :
                   /\ lattice[v].val.contiguity[d]
                        = getContiguity(prog[v], OperandInfos(v)[1], OperandInfos(v)[2], d)
                   /\ lattice[v].val.constancy[d]
                        = getConstancy(prog[v], OperandInfos(v)[1], OperandInfos(v)[2], d)

\* C8: every contiguity, divisibility and constancy entry of every known
\* record of the store is at least 1.
C8_EntriesAtLeastOne ==
    \A v \in Values :
        lattice[v].init =>
            \A d \in 1..getRank(lattice[v].val) :
                /\ lattice[v].val.contiguity[d] >= 1
                /\ lattice[v].val.divisibility[d] >= 1
                /\ lattice[v].val.constancy[d] >= 1

\* C9: a record with a constant value has, on every axis, the constancy of
\* the whole extent of that axis.
C9_ConstantIsFullyConstant ==
    \A v \in Values :
        lattice[v].init /\ hasValue(lattice[v].val) =>
            \A d \in 1..getRank(lattice[v].val) :
                lattice[v].val.constancy[d] = Extent(prog[v], d)

\* C10: for a ranked tensor of pointers the alignment returned is the minimum of the
\* divisibility and the contiguity of the fastest axis, the vector size the
\* minimum of it, the size per thread and the extent, exceeding none of
\* divisibility, contiguity and extent; for any other value both are 1.
C10_AlignmentQueries ==
    query.value # 0 /\ prog[query.value].kind \in {"tt.addptr", "tt.int_to_ptr"} =>
        LET op == prog[query.value]
            f == query.order0
        IN IF isRanked(op)
           THEN /\ query.alignment
                     = Min(query.info.divisibility[f], query.info.contiguity[f])
                /\ query.vec = Min(query.alignment,
                                   Min(query.sizePerThread, op.shape[f]))
                /\ query.vec <= query.info.divisibility[f]
                /\ query.vec <= query.info.contiguity[f]
                /\ query.vec <= op.shape[f]
           ELSE query.alignment = 1 /\ query.vec = 1

\* The values whose record in the store is the one getPessimisticValueState
\* returned: the arguments of entry blocks, seeded at the start, and the
\* results visitOperation marked as pessimistic fixpoint.
Seeded ==
    {v \in Values : prog[v].kind \in {"funcarg", "regionarg"}} \cup fixedBy

\* The all-ones record of the value's rank with divisibility h and no constant.
PessimisticDefault(op, h) ==
    LET rank == IF op.shape = <<>> THEN 1 ELSE Len(op.shape)
    IN [contiguity |-> [d \in 1..rank |-> 1],
        divisibility |-> [d \in 1..rank |-> h],
        constancy |-> [d \in 1..rank |-> 1],
        constantValue |-> <<>>]

DeclaredHint(op) ==
    IF op.kind = "funcarg" /\ op.hint # <<>> THEN op.hint[1] ELSE 1

\* C11: the record getPessimisticValueState returns for a value has contiguity
\* and constancy 1 on every axis, no constant, the rank of the tensor (1 for a
\* scalar), and divisibility 1, or the declared hint for a function argument.
C11_PessimisticState ==
    \A v \in Seeded :
        lattice[v].val = PessimisticDefault(prog[v], DeclaredHint(prog[v]))

\* C11 amended: as C11 for every value but an entry-block argument of an
\* operation that is no function, for which the record returned is unknown.
C11_PessimisticStateOrUnknown ==
    \A v \in Seeded :
        IF prog[v].kind = "regionarg"
        THEN ~known(lattice[v].val) /\ getRank(lattice[v].val) = 0
        ELSE lattice[v].val = PessimisticDefault(prog[v], DeclaredHint(prog[v]))

\* A function argument of rank 2 was seeded with its declared divisibility on
\* both axes, the argument of a region was seeded unknown, and the result of
\* rank 2 of an operation without transfer function was marked pessimistic.
C11_Witness ==
    /\ \E v \in Seeded :
          prog[v].kind = "funcarg" /\ lattice[v].val.divisibility = <<4, 4>>
    /\ \E v \in Seeded : prog[v].kind = "regionarg" /\ ~known(lattice[v].val)
    /\ \E v \in fixedBy : getRank(lattice[v].val) = 2

\* The contents held by an axis are one value within every aligned block of n
\* elements.
ConstantInBlocks(t, n) ==
    \A i \in DOMAIN t, j \in DOMAIN t : SameBlock(i, j, n) => t[i] = t[j]

\* C12: for operands whose contents satisfy their records, the result of the
\* comparison is one value within every aligned block of the constancy the
\* compare transfer function reports, for every predicate.
C12_CompareConstancySound ==
    tf.applied /\ tf.op.kind \in CmpKinds /\ ~tf.fatal
      => ConstantInBlocks(tf.result, tf.out.constancy[1])

\* The contents held by an axis are consecutive integers within every aligned
\* block of n elements.
ContiguousInBlocks(t, n) ==
    \A i \in DOMAIN t, j \in DOMAIN t : SameBlock(i, j, n) => t[j] - t[i] = j - i

\* C13: with lhs contiguous and rhs constant over the whole axis, the
\* contents satisfying the records, the divide transfer function reports the
\* constancy max(gcd(constL, constR), gcd(contL, gcd(divL, divR))) and the
\* quotient is one value within every aligned block of that size; the
\* remainder transfer function reports the contiguity gcd(contL, gcd(divL,
\* divR)) and the remainder is a run within every aligned block of that size.
C13_DivRemSpecialCaseSound ==
    LET lhs == tf.operands[1]
        rhs == tf.operands[2]
        raised == GreatestCommonDivisor(lhs.contiguity[1],
                     GreatestCommonDivisor(lhs.divisibility[1], rhs.divisibility[1]))
    IN tf.applied /\ tf.op.kind \in DivKinds \cup RemKinds /\ ~tf.fatal
         /\ lhs.contiguity[1] = TensorShape[1] /\ rhs.constancy[1] = TensorShape[1]
         => IF tf.op.kind \in DivKinds
            THEN /\ tf.out.constancy[1]
                      = Max(GreatestCommonDivisor(lhs.constancy[1], rhs.constancy[1]),
                            raised)
                 /\ ConstantInBlocks(tf.result, tf.out.constancy[1])
            ELSE /\ tf.out.contiguity[1] = raised
                 /\ ContiguousInBlocks(tf.result, tf.out.contiguity[1])

\* C14: a select with a ranked result whose condition has a constantValue
\* takes the whole record of the false branch when the value is 0 and of the
\* true branch otherwise; with no constantValue its record is, per axis d,
\* contiguity min(gcd(contTrue, condConst), gcd(contFalse, condConst)),
\* constancy min(gcd(constTrue, condConst), gcd(constFalse, condConst)),
\* divisibility min(divTrue, divFalse), and its constantValue is present
\* exactly when both branches have equal constantValues.
C14_SelectFormulas ==
    LET cond == tf.operands[1]
        true == tf.operands[2]
        false == tf.operands[3]
        rank == Len(tf.op.shape)
        out == tf.out
    IN tf.applied /\ tf.op.kind \in SelectKinds /\ isRanked(tf.op)
         => /\ ~tf.fatal
            /\ IF hasValue(cond)
               THEN out = (IF cond.constantValue[1] = 0 THEN false ELSE true)
               ELSE /\ getRank(out) = rank
                    /\ \A d \in 1..rank :
                          /\ d \in DOMAIN cond.constancy
                          /\ out.contiguity[d]
                               = Min(GreatestCommonDivisor(true.contiguity[d],
                                                           cond.constancy[d]),
                                     GreatestCommonDivisor(false.contiguity[d],
                                                           cond.constancy[d]))
                          /\ out.constancy[d]
                               = Min(GreatestCommonDivisor(true.constancy[d],
                                                           cond.constancy[d]),
                                     GreatestCommonDivisor(false.constancy[d],
                                                           cond.constancy[d]))
                          /\ out.divisibility[d]
                               = Min(true.divisibility[d], false.divisibility[d])
                    /\ hasValue(out)
                         <=> hasValue(true) /\ hasValue(false)
                             /\ true.constantValue = false.constantValue
                    /\ hasValue(out) => out.constantValue = true.constantValue

\* C14 for a condition whose record has the rank of the result.
C14_SelectFormulasSameRank ==
    getRank(tf.operands[1]) = Len(tf.op.shape) => C14_SelectFormulas

\* visitOperation(v) leaves the record of every value but v as it was.
WritesOnlyResult(v) ==
    \A w \in Values \ {v} : lattice'[w] = lattice[w]

\* The record of v is as it was, or is the join of what the transfer function
\* returned into it.
JoinsTransferOutput(v) ==
    \/ lattice'[v] = lattice[v]
    \/ \E curr \in Apply(prog[v], OperandInfos(v)) :
          /\ ~curr.fatal
          /\ \E out \in LatticeElement_join(lattice[v], curr.info) :
                ~out.fatal /\ lattice'[v] = Initialized(out.info)

\* The record of v is set to the pessimistic state of v, the transfer
\* function having returned the unknown record.
MarksPessimistic(v) ==
    \E curr \in Apply(prog[v], OperandInfos(v)) :
        /\ ~curr.fatal
        /\ getRank(curr.info) = 0
        /\ lattice'[v] = Initialized(getPessimisticValueState(prog[v]))

\* C15: a call visitOperation(op, operands) changes no record but the one of
\* op's result, the operands' records included, and changes the result's
\* record only by joining the transfer function's output into it.
C15_WritesOnlyResultByJoin ==
    [][\A v \in Values :
          visitOperation(v) => WritesOnlyResult(v) /\ JoinsTransferOutput(v)]_vars

\* C15, amended: the record of the result is changed by joining the transfer
\* function's output into it or, that output being the unknown record, by
\* setting it to the pessimistic state of the result.
C15_WritesOnlyResult ==
    [][\A v \in Values :
          visitOperation(v)
            => /\ WritesOnlyResult(v)
               /\ JoinsTransferOutput(v) \/ MarksPessimistic(v)]_vars

\* An operation of two operands was visited and holds a record of its own,
\* differing from those its operands hold, and another operation was marked
\* pessimistic.
C15_Witness ==
    /\ \E v \in visited \ fixedBy :
          /\ Len(prog[v].args) = 2
          /\ lattice[v].init /\ known(lattice[v].val)
          /\ \A i \in 1..2 : /\ lattice[prog[v].args[i]].init
                             /\ lattice[prog[v].args[i]].val # lattice[v].val
    /\ \E w \in fixedBy : lattice[w].init

\* The store the analysis starts from.
InitialStore ==
    [v \in DOMAIN prog |->
       IF prog[v].kind \in {"funcarg", "regionarg"}
       THEN Initialized(getPessimisticValueState(prog[v]))
       ELSE Uninitialized]

\* One particular order of the driver, on a store lat: every sweep takes the
\* values in program order, joining the incoming values of a block argument
\* in ascending order and visiting an operation whose operands are ready.
JoinIncomingIn(lat, b, p) ==
    IF lat[p].init
       /\ ~(lat[b].init /\ lat[b].val = getPessimisticValueState(prog[b]))
    THEN LET outs == {o \in LatticeElement_join(lat[b], lat[p].val) : ~o.fatal}
         IN IF outs = {} THEN lat
            ELSE [lat EXCEPT ![b] = Initialized((CHOOSE o \in outs : TRUE).info)]
    ELSE lat

RECURSIVE JoinAllIn(_, _, _)
JoinAllIn(lat, b, ps) ==
    IF ps = {} THEN lat
    ELSE LET p == CHOOSE x \in ps : \A y \in ps : x <= y
         IN JoinAllIn(JoinIncomingIn(lat, b, p), b, ps \ {p})

VisitIn(lat, v) ==
    LET args == prog[v].args
        ready == /\ \A i \in 1..Len(args) : lat[args[i]].init
                 /\ prog[v].kind \in BinaryKinds \cup CmpKinds \cup SelectKinds
                                     \cup {"tt.splat", "tt.broadcast", "tt.expand_dims"}
                      => \A i \in 1..Len(args) : known(lat[args[i]].val)
        currs == {c \in Apply(prog[v], [i \in 1..Len(args) |-> lat[args[i]].val]) :
                    ~c.fatal}
        curr == (CHOOSE c \in currs : TRUE).info
        outs == {o \in LatticeElement_join(lat[v], curr) : ~o.fatal}
    IN IF ~ready \/ currs = {} THEN lat
       ELSE IF getRank(curr) = 0
       THEN [lat EXCEPT ![v] = Initialized(getPessimisticValueState(prog[v]))]
       ELSE IF outs = {} THEN lat
       ELSE [lat EXCEPT ![v] = Initialized((CHOOSE o \in outs : TRUE).info)]

RECURSIVE SweepFrom(_, _)
SweepFrom(lat, v) ==
    IF v > Len(prog) THEN lat
    ELSE SweepFrom(CASE prog[v].kind = "blockarg" -> JoinAllIn(lat, v, prog[v].incoming)
                     [] prog[v].kind \in ArgKinds -> lat
                     [] OTHER -> VisitIn(lat, v),
                   v + 1)

RECURSIVE SweepFixpoint(_)
SweepFixpoint(lat) ==
    LET next == SweepFrom(lat, 1)
    IN IF next = lat THEN lat ELSE SweepFixpoint(next)

\* C16: the converged store does not depend on the visiting order: whatever
\* order the driver took, once no visit and no join changes a record any more
\* every value holds the record that the sweeps in program order end with.
C16_OrderIndependent ==
    Quiescent /\ status = "running" => lattice = SweepFixpoint(InitialStore)

=============================================================================
